---- MODULE Spec2Model ----
\* Code2Score: the code-to-music mapping pipeline (musicMapper.js), the
\* composition builder (analyzeCode in CodeToMusicPlayer.jsx) and the MIDI
\* encoder (midiGenerator.js), modelled as state machines.
\*
\* JavaScript strings are sequences of one-character strings, so that
\* trimming, splitting, concatenation and parsing are computed character by
\* character as the code and its libraries do.
EXTENDS Integers, Sequences, FiniteSets, TLC

\* The component: the editor's text, the selected filename, the theme flag
\* and the held composition; `edits` counts the text typed since the editor
\* was last created or cleared.
VARIABLES content, filename, darkMode, notes, edits

\* A call of one of the pure functions: its name, argument and result.
VARIABLES pc, fn, arg, ret

vars == <<content, filename, darkMode, notes, edits, pc, fn, arg, ret>>

-----------------------------------------------------------------------------
\* Bounds of the model (not program constants).

\* Octaves of the probed note names run from -1 to MaxOctave.
MaxOctave == 5
\* Largest number of notes handed to generateMIDI in one call.
MaxNotes == 2
\* varLen is probed on 0..MaxVarLenSmall and around every 7-bit boundary.
MaxVarLenSmall == 300
\* Largest number of tokens an edited document is assembled from.
MaxTokens == 2
\* Indentations of the probed lines run from 0 to MaxIndent.
MaxIndent == 16
\* MIDI numbers handed to midiToNoteName run from -2 to MaxMidi.
MaxMidi == 129

-----------------------------------------------------------------------------
\* String helpers (JavaScript String.prototype).

Range(s) == {s[i] : i \in 1..Len(s)}

Min(a, b) == IF a < b THEN a ELSE b

Abs(a) == IF a < 0 THEN -a ELSE a

\* \s of JavaScript regular expressions and String.prototype.trim, restricted
\* to the whitespace characters of the model's alphabet.
IsSpace(c) == c \in {" ", "\t", "\r", "\n"}

IsDigit(c) == c \in {"0", "1", "2", "3", "4", "5", "6", "7", "8", "9"}

DigitVal(c) ==
  CASE c = "0" -> 0 [] c = "1" -> 1 [] c = "2" -> 2 [] c = "3" -> 3
    [] c = "4" -> 4 [] c = "5" -> 5 [] c = "6" -> 6 [] c = "7" -> 7
    [] c = "8" -> 8 [] c = "9" -> 9

DigitChar(d) == <<"0", "1", "2", "3", "4", "5", "6", "7", "8", "9">>[d + 1]

\* Number-to-string conversion of `string + number` for integers.
RECURSIVE NatToStr(_)
NatToStr(n) == IF n < 10 THEN <<DigitChar(n)>>
               ELSE NatToStr(n \div 10) \o <<DigitChar(n % 10)>>

IntToStr(n) == IF n < 0 THEN <<"-">> \o NatToStr(-n) ELSE NatToStr(n)

\* String.prototype.toLowerCase on the letters of the model's alphabet.
LowerChar(c) ==
  CASE c = "A" -> "a" [] c = "B" -> "b" [] c = "C" -> "c" [] c = "D" -> "d"
    [] c = "E" -> "e" [] c = "F" -> "f" [] c = "G" -> "g" [] c = "H" -> "h"
    [] c = "M" -> "m" [] c = "S" -> "s" [] c = "X" -> "x" [] c = "J" -> "j"
    [] c = "P" -> "p" [] c = "Y" -> "y" [] c = "Z" -> "z"
    [] c = "T" -> "t"
    [] OTHER -> c

toLowerCase(s) == [i \in 1..Len(s) |-> LowerChar(s[i])]

LowerNoteLetters == {"a", "b", "c", "d", "e", "f", "g"}

UpperChar(c) ==
  IF c \notin LowerNoteLetters THEN c
  ELSE CASE c = "a" -> "A" [] c = "b" -> "B" [] c = "c" -> "C" [] c = "d" -> "D"
         [] c = "e" -> "E" [] c = "f" -> "F" [] c = "g" -> "G"

\* String.prototype.indexOf(c) for a one-character needle, 1-based; 0 when
\* the character does not occur (JavaScript: -1).
RECURSIVE IndexFrom(_, _, _)
IndexFrom(s, c, i) ==
  IF i > Len(s) THEN 0
  ELSE IF s[i] = c THEN i ELSE IndexFrom(s, c, i + 1)

IndexOf(s, c) == IndexFrom(s, c, 1)

\* Length of the run of characters satisfying a class, starting at i.
RECURSIVE RunOf(_, _, _)
RunOf(s, i, chars) ==
  IF i <= Len(s) /\ s[i] \in chars THEN 1 + RunOf(s, i + 1, chars) ELSE 0

RECURSIVE SpaceRun(_, _)
SpaceRun(s, i) ==
  IF i <= Len(s) /\ IsSpace(s[i]) THEN 1 + SpaceRun(s, i + 1) ELSE 0

RECURSIVE DigitRun(_, _)
DigitRun(s, i) ==
  IF i <= Len(s) /\ IsDigit(s[i]) THEN 1 + DigitRun(s, i + 1) ELSE 0

RECURSIVE DigitsVal(_, _, _)
DigitsVal(s, i, n) ==
  IF n = 0 THEN 0
  ELSE DigitsVal(s, i, n - 1) * 10 + DigitVal(s[i + n - 1])

RECURSIVE Repeat(_, _)
Repeat(c, n) == IF n <= 0 THEN <<>> ELSE <<c>> \o Repeat(c, n - 1)

-----------------------------------------------------------------------------
\* @tonaljs/tonal, as far as musicMapper.js calls it: Note.get and Scale.get.

\* Letters by step (C = 0 .. B = 6) and the chroma of each natural letter.
NoteLetters == <<"C", "D", "E", "F", "G", "A", "B">>

NaturalChroma == <<0, 2, 4, 5, 7, 9, 11>>

LetterSteps == [C |-> 0, D |-> 1, E |-> 2, F |-> 3, G |-> 4, A |-> 5, B |-> 6]

StepOf(letter) == LetterSteps[letter]

\* Accidental string of an alteration: sharps for alt > 0, flats for alt < 0.
AltToAcc(alt) == IF alt < 0 THEN Repeat("b", -alt) ELSE Repeat("#", alt)

\* The Note.get result for a string that is not a note name.
NoNote == [empty |-> TRUE, name |-> <<>>]

\* tokenizeNote(src): the note-name grammar
\*   ^([a-gA-G]?)(#{1,}|b{1,}|x{1,}|)(-?\d*)\s*(.*)$
\* matched from the left; each step takes the lengths matched so far and adds
\* the length of the next group.  The result holds the length of the letter,
\* of the accidentals, of the sign, of the digits and of the rest.
TokenizeRest(src, nLetter, nAcc, nNeg, nDig) ==
  [letter |-> nLetter, acc |-> nAcc, neg |-> nNeg, dig |-> nDig,
   rest |-> Len(src) - (nLetter + nAcc + nNeg + nDig)
              - SpaceRun(src, nLetter + nAcc + nNeg + nDig + 1)]

TokenizeDigits(src, nLetter, nAcc, nNeg) ==
  TokenizeRest(src, nLetter, nAcc, nNeg,
               DigitRun(src, nLetter + nAcc + nNeg + 1))

TokenizeSign(src, nLetter, nAcc) ==
  TokenizeDigits(src, nLetter, nAcc,
                 IF nLetter + nAcc + 1 <= Len(src)
                      /\ src[nLetter + nAcc + 1] = "-"
                 THEN 1 ELSE 0)

TokenizeAcc(src, nLetter) ==
  TokenizeSign(src, nLetter,
               IF nLetter + 1 <= Len(src)
                    /\ src[nLetter + 1] \in {"#", "b", "x"}
               THEN RunOf(src, nLetter + 1, {src[nLetter + 1]}) ELSE 0)

tokenizeNote(src) ==
  TokenizeAcc(src, IF Len(src) >= 1
                        /\ UpperChar(src[1])
                             \in {"C", "D", "E", "F", "G", "A", "B"}
                   THEN 1 ELSE 0)

\* The alteration of an accidental run: +1 per "#", +2 per "x", -1 per "b".
AccToAlt(accChar, nAcc) ==
  CASE accChar = "#" -> nAcc
    [] accChar = "x" -> 2 * nAcc
    [] accChar = "b" -> -nAcc

\* The note object built from the tokens.  It carries its octave in the field
\* `oct`; `hasOct` is FALSE where the library leaves `oct` undefined.  The
\* object has no field `octave`.
NoteOf(step, alt, hasOct, oct) ==
  [empty |-> FALSE,
   name |-> IF hasOct
            THEN <<NoteLetters[step + 1]>> \o AltToAcc(alt) \o IntToStr(oct)
            ELSE <<NoteLetters[step + 1]>> \o AltToAcc(alt),
   step |-> step, alt |-> alt,
   hasOct |-> hasOct, oct |-> oct,
   chroma |-> (NaturalChroma[step + 1] + alt + 120) % 12]

\* parse(src): a string without a letter, or with text left over, is not a
\* note.  (A sign without digits is outside the inputs of the model.)
ParseNote(src, t) ==
  IF t.letter = 0 \/ t.rest > 0 \/ (t.neg = 1 /\ t.dig = 0) THEN NoNote
  ELSE NoteOf(StepOf(UpperChar(src[1])),
              IF t.acc = 0 THEN 0 ELSE AccToAlt(src[2], t.acc),
              t.neg + t.dig > 0,
              IF t.neg = 1 THEN -DigitsVal(src, t.acc + 3, t.dig)
              ELSE DigitsVal(src, t.acc + 2, t.dig))

\* Note.get(src).
NoteGet(src) == ParseNote(src, tokenizeNote(src))

\* Scale types of the library's dictionary, each interval as
\* <<letter steps, semitones>> above the tonic.  The code only ever asks for
\* "<key> major" or "<key> minor", so the entries are the ones whose name
\* ends in one of those two words.
MajorIntervals ==
  <<<<0, 0>>, <<1, 2>>, <<2, 4>>, <<3, 5>>, <<4, 7>>, <<5, 9>>, <<6, 11>>>>

MinorIntervals ==
  <<<<0, 0>>, <<1, 2>>, <<2, 3>>, <<3, 5>>, <<4, 7>>, <<5, 8>>, <<6, 10>>>>

ScaleTypeIntervals(type) ==
  CASE type = <<"m", "a", "j", "o", "r">> -> MajorIntervals
    [] type = <<"m", "i", "n", "o", "r">> -> MinorIntervals
    [] type = <<"h", "a", "r", "m", "o", "n", "i", "c", " ",
                "m", "i", "n", "o", "r">> ->
         <<<<0, 0>>, <<1, 2>>, <<2, 3>>, <<3, 5>>, <<4, 7>>, <<5, 8>>,
           <<6, 11>>>>
    [] type = <<"b", "e", "b", "o", "p", " ", "m", "a", "j", "o", "r">> ->
         <<<<0, 0>>, <<1, 2>>, <<2, 4>>, <<3, 5>>, <<4, 7>>, <<4, 8>>,
           <<5, 9>>, <<6, 11>>>>
    [] OTHER -> <<>>

\* Note.transpose(tonic, interval) for an ascending interval: the letter
\* moves by the interval's steps, the accidental makes up the semitones.
TransposeTo(tonic, step, carry, semitones) ==
  <<NoteLetters[step + 1]>>
    \o AltToAcc(NaturalChroma[tonic.step + 1] + tonic.alt + semitones
                  - NaturalChroma[step + 1] - 12 * carry)
    \o (IF tonic.hasOct THEN IntToStr(tonic.oct + carry) ELSE <<>>)

Transpose(tonic, ivl) ==
  TransposeTo(tonic, (tonic.step + ivl[1]) % 7, (tonic.step + ivl[1]) \div 7,
              ivl[2])

\* intervals.map(i => transpose(tonic, i)).
RECURSIVE TransposeAll(_, _)
TransposeAll(tonic, ivls) ==
  IF Len(ivls) = 0 THEN <<>>
  ELSE <<Transpose(tonic, Head(ivls))>> \o TransposeAll(tonic, Tail(ivls))

\* The scale of a tonic and the intervals of a scale type.
ScaleOf(tonic, ivls) == [notes |-> TransposeAll(tonic, ivls)]

\* Scale.get(name) once the tonic is parsed: the scale type is what follows
\* the tonic and a space.  No tonic, or a type the dictionary does not have,
\* gives the empty scale.
ScaleOfTonic(name, tonic) ==
  IF tonic.empty THEN [notes |-> <<>>]
  ELSE ScaleOf(tonic,
               ScaleTypeIntervals(SubSeq(name, Len(tonic.name) + 2, Len(name))))

\* Scale.get(name): the name is split at its first space; what precedes it
\* must be a note name, the tonic.
ScaleGet(name) ==
  ScaleOfTonic(name, NoteGet(SubSeq(name, 1, IndexOf(name, " ") - 1)))

-----------------------------------------------------------------------------
\* musicMapper.js: the scale resolver and the pitch mapper.

NaturalScale == <<<<"C">>, <<"D">>, <<"E">>, <<"F">>, <<"G">>, <<"A">>, <<"B">>>>

flatToSharp(note) ==
  CASE note = <<"D", "b">> -> <<"C", "#">>
    [] note = <<"E", "b">> -> <<"D", "#">>
    [] note = <<"G", "b">> -> <<"F", "#">>
    [] note = <<"A", "b">> -> <<"G", "#">>
    [] note = <<"B", "b">> -> <<"A", "#">>
    [] OTHER -> note

\* scale.notes.map(note => flatToSharp[note] || note).
RECURSIVE MapFlatToSharp(_)
MapFlatToSharp(ns) ==
  IF Len(ns) = 0 THEN <<>>
  ELSE <<flatToSharp(Head(ns))>> \o MapFlatToSharp(Tail(ns))

\* The tail of getScaleNotes: an empty scale falls back to the naturals,
\* any other has its flats replaced by sharps.
ScaleNotesOrDefault(scale) ==
  IF Len(scale.notes) = 0 THEN NaturalScale
  ELSE MapFlatToSharp(scale.notes)

getScaleNotes(key) ==
  ScaleNotesOrDefault(
    ScaleGet(key \o <<" ">>
               \o (IF \/ "m" \in Range(toLowerCase(key))
                      \/ key \in {<<"A", "m">>, <<"E", "m">>, <<"D", "m">>,
                                  <<"B", "m">>}
                   THEN <<"m", "i", "n", "o", "r">>
                   ELSE <<"m", "a", "j", "o", "r">>)))

\* Circular distance of two chromas: min(dist1, 12 - dist1).
ChromaDistance(a, b) == Min(Abs(a - b), 12 - Abs(a - b))

RECURSIVE ClosestFrom(_, _, _, _, _)

\* The step that also replaces the closest chroma by one equally near.
ClosestStepOnTies(scaleChromas, i, targetChroma, closest, minDistance, distance) ==
  IF distance <= minDistance
  THEN ClosestFrom(scaleChromas, i + 1, targetChroma, scaleChromas[i],
                   distance)
  ELSE ClosestFrom(scaleChromas, i + 1, targetChroma, closest, minDistance)

\* The for-loop of constrainNoteToKey over scaleChromas[i..]: a chroma
\* replaces the closest one only when strictly nearer.
ClosestStep(scaleChromas, i, targetChroma, closest, minDistance, distance) ==
  IF distance < minDistance
  THEN ClosestFrom(scaleChromas, i + 1, targetChroma, scaleChromas[i],
                   distance)
  ELSE ClosestFrom(scaleChromas, i + 1, targetChroma, closest, minDistance)

ClosestFrom(scaleChromas, i, targetChroma, closestChroma, minDistance) ==
  IF i > Len(scaleChromas) THEN closestChroma
  ELSE ClosestStep(scaleChromas, i, targetChroma, closestChroma, minDistance,
                   ChromaDistance(targetChroma, scaleChromas[i]))

\* Array.prototype.find over scaleNotes[i..]: the first scale note with the
\* given chroma.
RECURSIVE FindFrom(_, _, _)
FindFrom(scaleNotes, i, c) ==
  IF NoteGet(scaleNotes[i]).chroma = c THEN scaleNotes[i]
  ELSE FindFrom(scaleNotes, i + 1, c)

FindByChroma(scaleNotes, c) == FindFrom(scaleNotes, 1, c)

C4 == <<"C", "4">>

\* scaleNotes.map(n => Note.get(n).chroma).
RECURSIVE ScaleChromas(_)
ScaleChromas(scaleNotes) ==
  IF Len(scaleNotes) = 0 THEN <<>>
  ELSE <<NoteGet(Head(scaleNotes)).chroma>> \o ScaleChromas(Tail(scaleNotes))

\* note.octave || 4: the note object has the field `oct`, not `octave`, so
\* the read is undefined and the octave is 4.
OctaveOrDefault(note) ==
  IF "octave" \in DOMAIN note /\ note.octave # 0 THEN note.octave ELSE 4

\* constrainNoteToKey once the note is parsed and the scale resolved.
ConstrainParsed(noteName, note, scaleNotes, scaleChromas) ==
  IF note.empty THEN C4
  ELSE IF Len(scaleChromas) = 0 THEN noteName
  ELSE FindByChroma(scaleNotes,
                    ClosestFrom(scaleChromas, 1, note.chroma,
                                scaleChromas[1], 12))
         \o IntToStr(OctaveOrDefault(note))

ConstrainToScale(noteName, scaleNotes) ==
  ConstrainParsed(noteName, NoteGet(noteName), scaleNotes,
                  ScaleChromas(scaleNotes))

\* The pitch mapper of the first revision: the note is returned as it came.
constrainNoteToKeyUnconstrained(noteName, key) == noteName

constrainNoteToKey(noteName, key) ==
  IF Len(noteName) = 0 THEN C4
  ELSE ConstrainToScale(noteName, getScaleNotes(key))

-----------------------------------------------------------------------------
\* musicMapper.js: the lookup tables and the line analysers.

\* A property read on an object literal also finds the members inherited
\* from Object.prototype; each is a function or object, hence truthy.
ObjectPrototypeMembers ==
  {<<"c", "o", "n", "s", "t", "r", "u", "c", "t", "o", "r">>,
   <<"t", "o", "S", "t", "r", "i", "n", "g">>,
   <<"v", "a", "l", "u", "e", "O", "f">>}

\* The value such a read yields: not a string.
InheritedMember == "<Object.prototype member>"

\* String.prototype.trim.
RECURSIVE TrimStart(_)
TrimStart(s) ==
  IF Len(s) > 0 /\ IsSpace(s[1]) THEN TrimStart(Tail(s)) ELSE s

RECURSIVE TrimEnd(_)
TrimEnd(s) ==
  IF Len(s) > 0 /\ IsSpace(s[Len(s)])
  THEN TrimEnd(SubSeq(s, 1, Len(s) - 1)) ELSE s

Trim(s) == TrimEnd(TrimStart(s))

\* String.prototype.split(sep)[...] for a one-character separator.
RECURSIVE Split(_, _)
Split(s, sep) ==
  LET i == IndexOf(s, sep)
  IN IF i = 0 THEN <<s>>
     ELSE <<SubSeq(s, 1, i - 1)>> \o Split(SubSeq(s, i + 1, Len(s)), sep)

\* The filter without the trim: line => line !== ''.
RECURSIVE FilterNonEmpty(_)
FilterNonEmpty(ls) ==
  IF Len(ls) = 0 THEN <<>>
  ELSE IF Head(ls) # <<>> THEN <<Head(ls)>> \o FilterNonEmpty(Tail(ls))
  ELSE FilterNonEmpty(Tail(ls))

\* Array.prototype.filter(line => line.trim() !== '').
RECURSIVE FilterNonBlank(_)
FilterNonBlank(ls) ==
  IF Len(ls) = 0 THEN <<>>
  ELSE IF Trim(Head(ls)) # <<>> THEN <<Head(ls)>> \o FilterNonBlank(Tail(ls))
  ELSE FilterNonBlank(Tail(ls))

\* s.replace(/[({;:,]/g, ''): every occurrence is removed.
RECURSIVE StripPunct(_)
StripPunct(s) ==
  IF Len(s) = 0 THEN <<>>
  ELSE IF Head(s) \in {"(", "{", ";", ":", ","} THEN StripPunct(Tail(s))
  ELSE <<Head(s)>> \o StripPunct(Tail(s))

\* s.split(/\s+/)[0] of a trimmed string: its first whitespace-free run.
RECURSIVE FirstRun(_)
FirstRun(s) ==
  IF Len(s) = 0 \/ IsSpace(Head(s)) THEN <<>>
  ELSE <<Head(s)>> \o FirstRun(Tail(s))

\* keyMap[ext] of getKeySignatureByExtension; <<>> stands for undefined.
keyMap(ext) ==
  CASE ext = <<"j", "s">> -> <<"C">>
    [] ext = <<"j", "s", "x">> -> <<"G">>
    [] ext = <<"t", "s">> -> <<"D">>
    [] ext = <<"t", "s", "x">> -> <<"A">>
    [] ext = <<"p", "y">> -> <<"A", "m">>
    [] ext = <<"p", "h", "p">> -> <<"F">>
    [] ext = <<"j", "a", "v", "a">> -> <<"B", "b">>
    [] ext = <<"c">> -> <<"E", "b">>
    [] ext = <<"c", "p", "p">> -> <<"A", "b">>
    [] ext = <<"r", "b">> -> <<"E">>
    [] ext = <<"g", "o">> -> <<"B">>
    [] ext = <<"r", "s">> -> <<"E", "m">>
    [] ext = <<"s", "w", "i", "f", "t">> -> <<"D">>
    [] ext = <<"d", "e", "f", "a", "u", "l", "t">> -> <<"C">>
    [] ext \in ObjectPrototypeMembers -> <<InheritedMember>>
    [] OTHER -> <<>>

\* The key labels the table can yield.
TableKeys ==
  {<<"C">>, <<"G">>, <<"D">>, <<"A">>, <<"A", "m">>, <<"F">>, <<"B", "b">>,
   <<"E", "b">>, <<"A", "b">>, <<"E">>, <<"B">>, <<"E", "m">>}

\* keyMap[ext] || keyMap.default.
KeyOrDefault(key) == IF key # <<>> THEN key ELSE <<"C">>

\* filename.split('.').pop()?.toLowerCase() || 'js'.
ExtensionOf(parts) ==
  IF parts[Len(parts)] = <<>> THEN <<"j", "s">>
  ELSE toLowerCase(parts[Len(parts)])

getKeySignatureByExtension(name) ==
  KeyOrDefault(keyMap(ExtensionOf(Split(name, "."))))

\* The thresholds taken inclusively: avgLength <= 20 and avgLength >= 60.
getTimeSignatureByAvgLengthInclusive(sum, count) ==
  IF sum <= 20 * count THEN "3/4"
  ELSE IF sum >= 60 * count THEN "6/8"
  ELSE "4/4"

\* avgLength is sum / count; the comparisons are taken on the exact quotient.
getTimeSignatureByAvgLength(sum, count) ==
  IF sum < 20 * count THEN "3/4"
  ELSE IF sum > 60 * count THEN "6/8"
  ELSE "4/4"

\* keywordMap[word] of getInstrumentByKeyword; "" stands for undefined.
keywordMap(word) ==
  CASE word = <<"f", "u", "n", "c", "t", "i", "o", "n">> -> "piano"
    [] word = <<"c", "l", "a", "s", "s">> -> "strings"
    [] word = <<"c", "o", "n", "s", "t">> -> "synth"
    [] word = <<"l", "e", "t">> -> "pluck"
    [] word = <<"v", "a", "r">> -> "metal"
    [] word = <<"i", "f">> -> "piano"
    [] word = <<"f", "o", "r">> -> "marimba"
    [] word = <<"w", "h", "i", "l", "e">> -> "organ"
    [] word = <<"r", "e", "t", "u", "r", "n">> -> "horn"
    [] word = <<"i", "m", "p", "o", "r", "t">> -> "bell"
    [] word = <<"e", "x", "p", "o", "r", "t">> -> "glockenspiel"
    [] word = <<"d", "e", "f">> -> "harp"
    [] word = <<"p", "r", "i", "n", "t">> -> "bell"
    [] word = <<"e", "c", "h", "o">> -> "woodwind"
    [] word = <<"S", "y", "s", "t", "e", "m">> -> "brass"
    [] word = <<"f", "m", "t">> -> "plucked"
    [] word = <<"d", "e", "f", "a", "u", "l", "t">> -> "piano"
    [] word \in ObjectPrototypeMembers -> InheritedMember
    [] OTHER -> ""

\* keywordMap[firstWord] || keywordMap.default.
InstrumentOrDefault(instrument) ==
  IF instrument # "" THEN instrument ELSE "piano"

getInstrumentByKeyword(line) ==
  IF Len(line) = 0 THEN "piano"
  ELSE InstrumentOrDefault(keywordMap(StripPunct(FirstRun(Trim(line)))))

\* Velocities are held in hundredths: 0.3 + indentLevel * 0.05 is
\* (30 + 5 * indentLevel) / 100.
\* The velocity without its cap at 1.0.
VelocityAndOctaveUncapped(indentLevel) ==
  [velocity |-> 30 + indentLevel * 5, octaveShift |-> indentLevel \div 4]

VelocityAndOctave(indentLevel) ==
  [velocity |-> Min(30 + indentLevel * 5, 100),
   octaveShift |-> indentLevel \div 4]

getVelocityAndOctaveByIndent(line) ==
  IF Len(line) = 0 THEN [velocity |-> 50, octaveShift |-> 0]
  ELSE VelocityAndOctave(SpaceRun(line, 1))

\* CodeToMusicPlayer.jsx: MIDI number to a sharp-spelled note name.
\* midiToNoteName without the range check.
midiToNoteNameUnchecked(midi) ==
  <<<<"C">>, <<"C", "#">>, <<"D">>, <<"D", "#">>, <<"E">>, <<"F">>,
    <<"F", "#">>, <<"G">>, <<"G", "#">>, <<"A">>, <<"A", "#">>,
    <<"B">>>>[(midi % 12) + 1]
    \o IntToStr((midi \div 12) - 1)

midiToNoteName(midi) ==
  IF midi < 0 \/ midi > 127 THEN C4
  ELSE <<<<"C">>, <<"C", "#">>, <<"D">>, <<"D", "#">>, <<"E">>, <<"F">>,
         <<"F", "#">>, <<"G">>, <<"G", "#">>, <<"A">>, <<"A", "#">>,
         <<"B">>>>[(midi % 12) + 1]
         \o IntToStr((midi \div 12) - 1)

-----------------------------------------------------------------------------
\* CodeToMusicPlayer.jsx: analyzeCode, the composition builder.

\* The duration chosen by the line's last character.
DurationOf(lastChar) ==
  IF lastChar = ":" THEN "8n"
  ELSE IF lastChar = ";" THEN "4n"
  ELSE IF lastChar = "}" THEN "2n"
  ELSE "4n"

\* The Note of a line whose MIDI number is computed.
NoteOfLine(line, index, timeSig, keySig, velocity, midiNote) ==
  [line |-> index + 1, content |-> line, length |-> Len(line),
   lastChar |-> line[Len(line)], midiNote |-> midiNote,
   noteName |-> constrainNoteToKey(midiToNoteName(midiNote), keySig),
   duration |-> DurationOf(line[Len(line)]), velocity |-> velocity,
   instrument |-> getInstrumentByKeyword(line),
   timeSig |-> timeSig, keySig |-> keySig]

\* midiNote = basePitch + pitchOffset, with basePitch = 60 + octaveShift * 12
\* and pitchOffset = min(floor(length / 5), 12).
NoteOfIndent(line, index, timeSig, keySig, vo) ==
  NoteOfLine(line, index, timeSig, keySig, vo.velocity,
             60 + vo.octaveShift * 12 + Min(Len(line) \div 5, 12))

\* The callback of lines.map: one Note per kept line.
analyzeLine(line, index, timeSig, keySig) ==
  NoteOfIndent(line, index, timeSig, keySig,
               getVelocityAndOctaveByIndent(line))

RECURSIVE SumLen(_)
SumLen(ls) == IF Len(ls) = 0 THEN 0 ELSE Len(Head(ls)) + SumLen(Tail(ls))

\* lines.map(...) under the composition's time and key signature.
MapLines(lines, timeSig, keySig) ==
  [i \in 1..Len(lines) |-> analyzeLine(lines[i], i - 1, timeSig, keySig)]

\* analyzeCode once the kept lines are known.
AnalyzeLines(lines, name) ==
  IF Len(lines) = 0 THEN <<>>
  ELSE MapLines(lines, getTimeSignatureByAvgLength(SumLen(lines), Len(lines)),
                getKeySignatureByExtension(name))

\* analyzeCode: the value handed to setNotes for editor text `text` under
\* the filename the effect closed over.
analyzeCode(text, name) == AnalyzeLines(FilterNonBlank(Split(text, "\n")), name)

-----------------------------------------------------------------------------
\* midiGenerator.js: the MIDI encoder.  Numbers handed to the bit operations
\* lie in 0 .. 2^31 - 1, where >> is division by a power of two and & a
\* remainder.

\* The bytes of num, least significant first.
intToBytesLittleEndian(num, bytes) ==
  [k \in 1..bytes |-> (num \div (2 ^ ((k - 1) * 8))) % 256]

\* intToBytes(num, bytes): the bytes of num, most significant first.
intToBytes(num, bytes) ==
  [k \in 1..bytes |-> (num \div (2 ^ ((bytes - k) * 8))) % 256]

\* The while-loop of varLen: pushes the continuation bytes, low group first.
RECURSIVE varLenLoop(_, _)
varLenLoop(value, buffer) ==
  IF value > 127
  THEN LET v == value \div 128
       IN varLenLoop(v, buffer \o <<128 + (v % 128)>>)
  ELSE buffer

\* Array.prototype.reverse.
Reverse(s) == [k \in 1..Len(s) |-> s[Len(s) + 1 - k]]

\* varLen without the final reverse.
varLenUnreversed(value) == varLenLoop(value, <<value % 128>>)

varLen(value) == Reverse(varLenLoop(value, <<value % 128>>))

\* Tone.Time(duration).toSeconds() at the Transport's tempo, which the
\* program never changes from 120 BPM, in quarters of a second.
ToneQuarterSeconds(duration) ==
  CASE duration = "1n" -> 8
    [] duration = "2n" -> 4
    [] duration = "4n" -> 2
    [] duration = "8n" -> 1

\* Tone.Frequency(noteName).toMidi(): 12 per octave, C4 = 60.
MidiOfNote(n) == NaturalChroma[n.step + 1] + n.alt + (n.oct + 1) * 12

ToneToMidi(noteName) == MidiOfNote(NoteGet(noteName))

\* The two events in the other order: Note Off first, then Note On.
NoteOffOn(currentTime, midiNumber, velocity, durationTicks) ==
  varLen(durationTicks) \o <<128, midiNumber, 64>>
    \o varLen(currentTime) \o <<144, midiNumber, velocity>>

\* Note On at delta-time currentTime, Note Off after durationTicks.
NoteOnOff(currentTime, midiNumber, velocity, durationTicks) ==
  varLen(currentTime) \o <<144, midiNumber, velocity>>
    \o varLen(durationTicks) \o <<128, midiNumber, 64>>

\* The bytes of one note; currentTime is 0 for every note and
\* durationTicks = floor(seconds * ticksPerBeat / (60 / tempo)) with
\* ticksPerBeat = 96.
NoteEvents(note, tempo) ==
  NoteOnOff(0, ToneToMidi(note.noteName), note.velocity,
            (ToneQuarterSeconds(note.duration) * 96 * tempo) \div (4 * 60))

RECURSIVE AllNoteEvents(_, _)
AllNoteEvents(ns, tempo) ==
  IF Len(ns) = 0 THEN <<>>
  ELSE NoteEvents(Head(ns), tempo) \o AllNoteEvents(Tail(ns), tempo)

\* "MThd", length 6, format 0, one track, 96 ticks per quarter note.
MidiHeader == <<77, 84, 104, 100, 0, 0, 0, 6, 0, 0, 0, 1, 0, 96>>

\* The tempo event, the note events and the end-of-track event.
TrackEvents(ns, tempo) ==
  <<0, 255, 81, 3>> \o intToBytes(60000000 \div tempo, 3)
    \o AllNoteEvents(ns, tempo) \o <<0, 255, 47, 0>>

\* The track chunk with its length taken before the end-of-track event is
\* appended.
TrackChunkLengthEarly(trackEvents) ==
  <<77, 84, 114, 107>> \o intToBytes(Len(trackEvents) - 4, 4) \o trackEvents

\* "MTrk", the length of the events, the events.
TrackChunk(trackEvents) ==
  <<77, 84, 114, 107>> \o intToBytes(Len(trackEvents), 4) \o trackEvents

\* new Uint8Array(...).set(...): each element is stored modulo 256.
Uint8Array(bytes) == [k \in 1..Len(bytes) |-> bytes[k] % 256]

\* generateMIDI(notes, tempo): the contents of midiData, the array that is
\* saved.
generateMIDI(ns, tempo) ==
  Uint8Array(MidiHeader \o TrackChunk(TrackEvents(ns, tempo)))

-----------------------------------------------------------------------------
\* The component CodeToMusicPlayer.

\* The text every newly created editor starts with.
DefaultValue ==
  <<"f", "u", "n", "c", "t", "i", "o", "n", " ", "h", "e", "l", "l", "o",
    "(", ")", " ", "{", "\n",
    " ", " ", "c", "o", "n", "s", "o", "l", "e", ".", "l", "o", "g", "(",
    "\"", "H", "e", "l", "l", "o", ",", " ", "w", "o", "r", "l", "d", "!",
    "\"", ")", ";", "\n",
    " ", " ", " ", " ", "i", "f", " ", "(", "t", "r", "u", "e", ")", " ",
    "{", "\n",
    " ", " ", " ", " ", " ", " ", "r", "e", "t", "u", "r", "n", " ", "t",
    "r", "u", "e", ";", "\n",
    " ", " ", " ", " ", "}", "\n",
    "}">>

\* The options of the file-type select.
Filenames ==
  {<<"e", "x", "a", "m", "p", "l", "e", ".", "j", "s">>,
   <<"e", "x", "a", "m", "p", "l", "e", ".", "p", "y">>,
   <<"e", "x", "a", "m", "p", "l", "e", ".", "p", "h", "p">>,
   <<"e", "x", "a", "m", "p", "l", "e", ".", "j", "a", "v", "a">>,
   <<"e", "x", "a", "m", "p", "l", "e", ".", "g", "o">>}

\* What one edit types at the end of the text.  (Lines that end in ";" are
\* in the text every editor starts with.)
Tokens ==
  {<<" ">>, <<"\n">>, <<"}">>, <<":">>, <<"(">>,
   <<"f", "o", "r">>,
   <<"c", "o", "n", "s", "t", "r", "u", "c", "t", "o", "r">>}

NoArg == [noteName |-> <<>>, key |-> <<>>, notes |-> <<>>, tempo |-> 0,
          value |-> 0, text |-> <<>>, name |-> <<>>, count |-> 0,
          playing |-> FALSE]

\* The composition analyzeCode builds from the text a new editor starts
\* with, for each filename of the select.
EffectNotes == [name \in Filenames |-> analyzeCode(DefaultValue, name)]

\* The effect without its call of analyzeCode: the composition stays as it
\* was.
RunEffectWithoutAnalysis(name) ==
  /\ content' = DefaultValue
  /\ notes' = notes
  /\ edits' = 0

\* The body of the effect keyed on [filename, darkMode]: a new editor with
\* the default text replaces the old one and analyzeCode runs once.
RunEffect(name) ==
  /\ content' = DefaultValue
  /\ notes' = EffectNotes[name]
  /\ edits' = 0

Init ==
  /\ content = DefaultValue
  /\ filename = <<"e", "x", "a", "m", "p", "l", "e", ".", "j", "s">>
  /\ darkMode = FALSE
  /\ notes = analyzeCode(DefaultValue, filename)
  /\ edits = 0
  /\ pc = "idle" /\ fn = "none" /\ arg = NoArg /\ ret = <<>>

\* editor.on('change', analyzeCode): text typed at the end of the document.
EditorType(tok) ==
  /\ edits < MaxTokens
  /\ content' = content \o tok
  /\ notes' = analyzeCode(content', filename)
  /\ edits' = edits + 1
  /\ UNCHANGED <<filename, darkMode, pc, fn, arg, ret>>

\* editor.on('change', analyzeCode): the whole text is deleted.
EditorClear ==
  /\ content # <<>>
  /\ content' = <<>>
  /\ notes' = analyzeCode(content', filename)
  /\ edits' = 0
  /\ UNCHANGED <<filename, darkMode, pc, fn, arg, ret>>

\* handleFileTypeChange: setFilename, then the effect runs again.
handleFileTypeChange(name) ==
  /\ name # filename
  /\ filename' = name
  /\ RunEffect(name)
  /\ UNCHANGED <<darkMode, pc, fn, arg, ret>>

\* ThemeToggle: setDarkMode(!darkMode), then the effect runs again.
ToggleTheme ==
  /\ darkMode' = ~darkMode
  /\ RunEffect(filename)
  /\ UNCHANGED <<filename, pc, fn, arg, ret>>

Next ==
  \/ \E tok \in Tokens : EditorType(tok)
  \/ EditorClear
  \/ \E name \in Filenames : handleFileTypeChange(name)
  \/ ToggleTheme

Spec == Init /\ [][Next]_vars

-----------------------------------------------------------------------------
\* CodeToMusicPlayer.jsx: playNotes.

\* The schedule without the 0.1 s pause after each note.
RECURSIVE ScheduleWithoutPause(_, _)
ScheduleWithoutPause(ns, time) ==
  IF Len(ns) = 0 THEN <<>>
  ELSE <<[noteName |-> Head(ns).noteName, duration |-> Head(ns).duration,
          time |-> time, velocity |-> Head(ns).velocity]>>
         \o ScheduleWithoutPause(Tail(ns),
                                 time + ToneQuarterSeconds(Head(ns).duration) * 250)

\* notes.forEach of playNotes from the note at the head of ns: the call
\* synth.triggerAttackRelease(noteName, duration, time, velocity) of each
\* note, then time += Tone.Time(duration).toSeconds() + 0.1.  Times are in
\* milliseconds.
RECURSIVE ScheduleFrom(_, _)
ScheduleFrom(ns, time) ==
  IF Len(ns) = 0 THEN <<>>
  ELSE <<[noteName |-> Head(ns).noteName, duration |-> Head(ns).duration,
          time |-> time, velocity |-> Head(ns).velocity]>>
         \o ScheduleFrom(Tail(ns),
                         time + ToneQuarterSeconds(Head(ns).duration) * 250
                           + 100)

\* playNotes with the held notes ns: nothing is scheduled for an empty
\* composition or while a playback is running; otherwise the notes are
\* scheduled from now = Tone.Transport.now().
playNotes(ns, isPlaying, now) ==
  IF Len(ns) = 0 \/ isPlaying THEN <<>> ELSE ScheduleFrom(ns, now)

\* CodeToMusicPlayer.jsx: exportMIDI with the held notes ns: no file for an
\* empty composition, otherwise the file generateMIDI(notes, 120) saves.
exportMIDI(ns) == IF Len(ns) = 0 THEN <<>> ELSE generateMIDI(ns, 120)

-----------------------------------------------------------------------------
\* Calls of the pure functions on inputs drawn from bounded sets.

PitchClasses ==
  {<<"C">>, <<"C", "#">>, <<"D">>, <<"D", "#">>, <<"E">>, <<"F">>,
   <<"F", "#">>, <<"G">>, <<"G", "#">>, <<"A">>, <<"A", "#">>, <<"B">>}

Octaves == (-1)..MaxOctave

\* Key labels: the table's, and unknown, empty and malformed ones.
KeyLabels ==
  TableKeys \cup
  {<<"D", "m">>, <<"H">>, <<>>, <<"m">>, <<"c">>, <<"C", "#">>,
   <<"G", "b">>, <<"X", "y", "z">>, <<"C", "4">>,
   <<"C", " ", "b", "e", "b", "o", "p">>}

\* Note names: every pitch class in every octave, a pitch class without an
\* octave, and strings that are not note names.
NoteNames ==
  {p \o IntToStr(o) : p \in PitchClasses, o \in Octaves}
    \cup {<<"C", "#">>, <<"H", "4">>, <<>>}

\* Notes as generateMIDI reads them: noteName, duration and velocity (in
\* hundredths).
MidiNotes ==
  [noteName : {<<"C", "4">>, <<"A", "#", "4">>, <<"F", "5">>},
   duration : {"2n", "4n", "8n"},
   velocity : {30, 100}]

RECURSIVE SeqsUpTo(_, _)
SeqsUpTo(S, n) ==
  IF n = 0 THEN {<<>>}
  ELSE LET shorter == SeqsUpTo(S, n - 1)
       IN shorter \cup {Append(s, x) : s \in shorter, x \in S}

Tempos == {1, 3, 60, 120, 240}

\* Values for varLen: a run from 0 and both sides of each 7-bit boundary.
VarLenValues ==
  (0..MaxVarLenSmall) \cup
  {16383, 16384, 2097151, 2097152, 268435455}

\* Source lines: an indentation of 0..MaxIndent spaces before a body.
LineBodies == {<<"x">>, <<"}">>, <<"i", "f", " ", "(", "a", ")", " ", "{">>}

IndentedLines ==
  {Repeat(" ", n) \o body : n \in 0..MaxIndent, body \in LineBodies}

\* MIDI numbers: below, inside and above the range 0..127.
MidiNumbers == (-2)..MaxMidi

\* Sums and counts of line lengths whose averages lie on both sides of, and
\* on, the thresholds 20 and 60.
LengthSums == {1, 19, 20, 21, 39, 40, 41, 59, 60, 61, 119, 120, 121, 181}

LineCounts == {1, 2, 3}

\* Filenames: the select's, other extensions of the table, extensions that
\* are not in it, names without an extension and the empty name.
FilenameInputs ==
  Filenames \cup
  {<<"a", ".", "t", "s">>, <<"a", ".", "T", "S", "X">>,
   <<"a", ".", "b", ".", "r", "s">>, <<"a", ".", "c", "p", "p">>,
   <<"e", "x", "a", "m", "p", "l", "e", ".", "x", "y", "z">>,
   <<"M", "a", "k", "e", "f", "i", "l", "e">>, <<"a", ".">>, <<>>,
   <<"a", ".", "d", "e", "f", "a", "u", "l", "t">>,
   <<"a", ".", "c", "o", "n", "s", "t", "r", "u", "c", "t", "o", "r">>}

\* Documents of one or two lines of x's: indentations below and above one
\* octave shift, lengths that move the average across both thresholds and
\* the pitch offset up to its cap.
DocLines ==
  {Repeat(" ", n) \o Repeat("x", k) :
     n \in {0, 3, 4, 20, 24}, k \in {1, 5, 16, 36, 61, 62}}

Documents ==
  DocLines \cup {a \o <<"\n">> \o b : a \in DocLines, b \in DocLines}

InitCalls ==
  /\ content = <<>> /\ filename = <<>> /\ darkMode = FALSE
  /\ notes = <<>> /\ edits = 0
  /\ pc = "ready"
  /\ ret = <<>>
  /\ \/ /\ fn = "constrainNoteToKey"
        /\ \E n \in NoteNames, k \in KeyLabels :
             arg = [NoArg EXCEPT !.noteName = n, !.key = k]
     \/ /\ fn = "getScaleNotes"
        /\ \E k \in KeyLabels : arg = [NoArg EXCEPT !.key = k]
     \/ /\ fn = "generateMIDI"
        /\ \E ns \in SeqsUpTo(MidiNotes, MaxNotes), t \in Tempos :
             arg = [NoArg EXCEPT !.notes = ns, !.tempo = t]
     \/ /\ fn = "varLen"
        /\ \E v \in VarLenValues : arg = [NoArg EXCEPT !.value = v]
     \/ /\ fn = "getVelocityAndOctaveByIndent"
        /\ \E l \in IndentedLines : arg = [NoArg EXCEPT !.text = l]
     \/ /\ fn = "midiToNoteName"
        /\ \E v \in MidiNumbers : arg = [NoArg EXCEPT !.value = v]
     \/ /\ fn = "getTimeSignatureByAvgLength"
        /\ \E v \in LengthSums, c \in LineCounts :
             arg = [NoArg EXCEPT !.value = v, !.count = c]
     \/ /\ fn = "getKeySignatureByExtension"
        /\ \E f \in FilenameInputs : arg = [NoArg EXCEPT !.name = f]
     \/ /\ fn = "analyzeCode"
        /\ \E d \in Documents, f \in Filenames :
             arg = [NoArg EXCEPT !.text = d, !.name = f]
     \/ /\ fn = "exportMIDI"
        /\ \E d \in Documents \cup {<<>>}, f \in Filenames :
             arg = [NoArg EXCEPT !.text = d, !.name = f]
     \/ /\ fn = "playNotes"
        /\ \E ns \in SeqsUpTo(MidiNotes, MaxNotes), b \in BOOLEAN,
              t \in {0, 1500} :
             arg = [NoArg EXCEPT !.notes = ns, !.playing = b, !.value = t]

Return(f, result) ==
  /\ pc = "ready" /\ fn = f
  /\ ret' = result
  /\ pc' = "done"
  /\ UNCHANGED <<content, filename, darkMode, notes, edits, fn, arg>>

CallConstrainNoteToKey ==
  Return("constrainNoteToKey", constrainNoteToKey(arg.noteName, arg.key))

CallGetScaleNotes == Return("getScaleNotes", getScaleNotes(arg.key))

CallGenerateMIDI == Return("generateMIDI", generateMIDI(arg.notes, arg.tempo))

CallVarLen == Return("varLen", varLen(arg.value))

CallGetVelocityAndOctaveByIndent ==
  Return("getVelocityAndOctaveByIndent",
         getVelocityAndOctaveByIndent(arg.text))

CallMidiToNoteName == Return("midiToNoteName", midiToNoteName(arg.value))

CallGetTimeSignatureByAvgLength ==
  Return("getTimeSignatureByAvgLength",
         getTimeSignatureByAvgLength(arg.value, arg.count))

CallGetKeySignatureByExtension ==
  Return("getKeySignatureByExtension", getKeySignatureByExtension(arg.name))

CallAnalyzeCode == Return("analyzeCode", analyzeCode(arg.text, arg.name))

CallPlayNotes ==
  Return("playNotes", playNotes(arg.notes, arg.playing, arg.value))

\* The held composition of a document is exported: analyzeCode has set
\* notes from the editor's text, exportMIDI encodes them.
CallExportMIDI ==
  Return("exportMIDI", exportMIDI(analyzeCode(arg.text, arg.name)))

NextCalls ==
  \/ CallConstrainNoteToKey
  \/ CallGetScaleNotes
  \/ CallGenerateMIDI
  \/ CallVarLen
  \/ CallGetVelocityAndOctaveByIndent
  \/ CallMidiToNoteName
  \/ CallGetTimeSignatureByAvgLength
  \/ CallGetKeySignatureByExtension
  \/ CallAnalyzeCode
  \/ CallPlayNotes
  \/ CallExportMIDI

SpecCalls == InitCalls /\ [][NextCalls]_vars

-----------------------------------------------------------------------------
\* Properties of the scale resolver and the pitch mapper (SpecCalls).

Returned(f) == pc = "done" /\ fn = f

\* The input is a pitch class followed by an octave.
IsPitchWithOctave(noteName) ==
  \E p \in PitchClasses, o \in Octaves : noteName = p \o IntToStr(o)

\* Pitch class and octave of a note name, read off its characters: the
\* letter and the sharps, then the (signed) octave number.
PitchClassOf(noteName) ==
  SubSeq(noteName, 1, 1 + RunOf(noteName, 2, {"#"}))

OctaveOf(noteName) ==
  LET p == 2 + RunOf(noteName, 2, {"#"})
  IN IF noteName[p] = "-"
     THEN -DigitsVal(noteName, p + 1, Len(noteName) - p)
     ELSE DigitsVal(noteName, p, Len(noteName) - p + 1)

\* C1: scale closure.  For every pitch class P, every octave and every key
\* label K of the extension->key table, the note returned by
\* constrainNoteToKey(P + octave, K) has a pitch class that is a member of
\* getScaleNotes(K).
C1_ScaleClosure ==
  (Returned("constrainNoteToKey") /\ IsPitchWithOctave(arg.noteName)
     /\ arg.key \in TableKeys)
    => PitchClassOf(ret) \in Range(getScaleNotes(arg.key))

\* A note outside the key has been snapped to another pitch class.
C1_Witness ==
  /\ Returned("constrainNoteToKey")
  /\ arg.noteName = <<"C", "#", "4">> /\ arg.key = <<"B", "b">>
  /\ PitchClassOf(ret) # <<"C", "#">>
  /\ PitchClassOf(ret) \in Range(getScaleNotes(arg.key))

\* C2: octave preservation.  For every parseable input note, with any
\* octave including 0 and -1, and every key, the octave of the note
\* returned by constrainNoteToKey is the octave of its input.
C2_OctavePreserved ==
  (Returned("constrainNoteToKey") /\ IsPitchWithOctave(arg.noteName))
    => OctaveOf(ret) = OctaveOf(arg.noteName)

\* Chroma of a sharp-spelled pitch class, C = 0 .. B = 11.
SharpNames ==
  <<<<"C">>, <<"C", "#">>, <<"D">>, <<"D", "#">>, <<"E">>, <<"F">>,
    <<"F", "#">>, <<"G">>, <<"G", "#">>, <<"A">>, <<"A", "#">>, <<"B">>>>

\* Labels no scale is known for.
UnknownLabels == {<<"H">>, <<>>, <<"m">>, <<"X", "y", "z">>}

\* C7: for every key label whatsoever, getScaleNotes returns exactly 7
\* pairwise-distinct pitch classes; for a label that is not recognised the
\* result is exactly C, D, E, F, G, A, B.
C7_SevenDistinct ==
  Returned("getScaleNotes")
    => /\ Len(ret) = 7
       /\ \A i, j \in 1..Len(ret) : i # j => ret[i] # ret[j]
       /\ arg.key \in UnknownLabels => ret = NaturalScale

\* The tonic of a table key as a chroma: the letter, a flat lowering it.
TonicChroma(key) ==
  LET natural == CASE key[1] = "C" -> 0 [] key[1] = "D" -> 2
                   [] key[1] = "E" -> 4 [] key[1] = "F" -> 5
                   [] key[1] = "G" -> 7 [] key[1] = "A" -> 9
                   [] key[1] = "B" -> 11
  IN IF Len(key) >= 2 /\ key[2] = "b" THEN (natural + 11) % 12 ELSE natural

\* The diatonic scale of a table key, from the tonic upward in sharp names:
\* W-W-H-W-W-W-H, or W-H-W-W-H-W-W for a label ending in "m".
DiatonicScale(key) ==
  LET offsets == IF key[Len(key)] = "m" THEN <<0, 2, 3, 5, 7, 8, 10>>
                 ELSE <<0, 2, 4, 5, 7, 9, 11>>
  IN [i \in 1..7 |-> SharpNames[((TonicChroma(key) + offsets[i]) % 12) + 1]]

\* C8: scale construction.  For every key label of the extension->key
\* table, getScaleNotes returns the 7 scale degrees built from the label's
\* tonic, from the tonic upward, in sharp names: the major pattern for the
\* labels without a trailing "m", the natural-minor pattern for Am and Em.
C8_ScaleConstruction ==
  (Returned("getScaleNotes") /\ arg.key \in TableKeys)
    => ret = DiatonicScale(arg.key)

-----------------------------------------------------------------------------
\* Properties of the MIDI encoder (SpecCalls).

MTrk == <<77, 84, 114, 107>>

\* The positions at which the four bytes "MTrk" occur.
MTrkPositions(bytes) ==
  {i \in 1..(Len(bytes) - 3) : SubSeq(bytes, i, i + 3) = MTrk}

\* A run of bytes read as one big-endian number.
RECURSIVE BigEndian(_)
BigEndian(bytes) ==
  IF Len(bytes) = 0 THEN 0
  ELSE BigEndian(SubSeq(bytes, 1, Len(bytes) - 1)) * 256 + bytes[Len(bytes)]

\* C3: MIDI structural validity.  For every note sequence and tempo, the
\* output of generateMIDI begins with 4D 54 68 64, contains 4D 54 72 6B
\* exactly once, and the 4-byte big-endian length written right after it
\* equals the number of bytes that follow that length.
C3_MidiStructure ==
  Returned("generateMIDI")
    => /\ Len(ret) >= 4
       /\ SubSeq(ret, 1, 4) = <<77, 84, 104, 100>>
       /\ Cardinality(MTrkPositions(ret)) = 1
       /\ \A i \in MTrkPositions(ret) :
             /\ i + 7 <= Len(ret)
             /\ BigEndian(SubSeq(ret, i + 4, i + 7)) = Len(ret) - (i + 7)

\* A file with two notes, one of them with a two-byte delta-time.
C3_Witness ==
  /\ Returned("generateMIDI")
  /\ Len(arg.notes) = 2
  /\ arg.notes[1].duration = "2n" /\ arg.tempo = 120
  /\ Len(ret) > 33

\* Decoding by the MIDI variable-length-quantity rule: seven bits per byte,
\* most significant group first.
RECURSIVE VlqDecode(_)
VlqDecode(bytes) ==
  IF Len(bytes) = 0 THEN 0
  ELSE VlqDecode(SubSeq(bytes, 1, Len(bytes) - 1)) * 128
         + (bytes[Len(bytes)] % 128)

\* C4: variable-length-quantity round trip.  For every v with
\* 0 <= v < 2^28, varLen(v) is a sequence of bytes in which every byte but
\* the last has its high bit set and the last has it clear, and decoding it
\* yields v.
C4_VarLenRoundTrip ==
  Returned("varLen")
    => /\ Len(ret) >= 1
       /\ \A i \in 1..Len(ret) : ret[i] \in 0..255
       /\ \A i \in 1..(Len(ret) - 1) : ret[i] >= 128
       /\ ret[Len(ret)] < 128
       /\ VlqDecode(ret) = arg.value

\* The first value that needs three bytes has been encoded.
C4_Witness ==
  /\ Returned("varLen")
  /\ arg.value = 16384
  /\ ret = <<129, 128, 0>>

\* C6: empty composition encoding.  generateMIDI([], 120) produces exactly
\* 33 bytes: the 14-byte header chunk, the 8-byte track header, the 7-byte
\* tempo event and the 4-byte end-of-track event, and no note event.
C6_EmptyComposition ==
  (Returned("generateMIDI") /\ arg.notes = <<>> /\ arg.tempo = 120)
    => /\ Len(ret) = 33
       /\ SubSeq(ret, 1, 14)
            = <<77, 84, 104, 100, 0, 0, 0, 6, 0, 0, 0, 1, 0, 96>>
       /\ SubSeq(ret, 15, 22) = <<77, 84, 114, 107, 0, 0, 0, 11>>
       /\ SubSeq(ret, 23, 29) = <<0, 255, 81, 3, 7, 161, 32>>
       /\ SubSeq(ret, 30, 33) = <<0, 255, 47, 0>>
       /\ \A i \in 1..Len(ret) : ret[i] \notin {128, 144}

\* The empty composition has been encoded at tempo 120.
C6_Witness ==
  /\ Returned("generateMIDI")
  /\ arg.notes = <<>> /\ arg.tempo = 120
  /\ Len(ret) = 33

-----------------------------------------------------------------------------
\* Properties of the line analysers (SpecCalls).

\* The number of whitespace characters a line starts with.
LeadingSpaces(line) ==
  CHOOSE n \in 0..Len(line) :
    /\ \A i \in 1..n : IsSpace(line[i])
    /\ n = Len(line) \/ ~IsSpace(line[n + 1])

\* The velocity claimed for n leading whitespace characters, in hundredths.
ClaimedVelocity(n) == IF 30 + 5 * n <= 100 THEN 30 + 5 * n ELSE 100

ClaimedMidi(line) ==
  60 + 12 * (LeadingSpaces(line) \div 4)
     + (IF Len(line) \div 5 <= 12 THEN Len(line) \div 5 ELSE 12)

\* C12: pre-snap pitch derivation.  For every non-blank line with n leading
\* whitespace characters and length L, midiNumber is
\* 60 + 12 * floor(n / 4) + min(floor(L / 5), 12); for a midiNumber in
\* [0, 127] the raw note has octave floor(midiNumber / 12) - 1 and the pitch
\* class at index midiNumber mod 12 of the sharp-spelled list C..B, and for
\* one outside [0, 127] the raw note is C4.
C12_PreSnapPitch ==
  /\ Returned("analyzeCode") =>
       \A i \in 1..Len(ret) : ret[i].midiNote = ClaimedMidi(ret[i].content)
  /\ Returned("midiToNoteName") =>
       IF arg.value >= 0 /\ arg.value <= 127
       THEN /\ PitchClassOf(ret) = SharpNames[(arg.value % 12) + 1]
            /\ OctaveOf(ret) = (arg.value \div 12) - 1
       ELSE ret = C4

\* A line indented by 24 spaces and longer than 60 characters got a MIDI
\* number above 127, whose raw note is C4.
C12_Witness ==
  /\ Returned("analyzeCode")
  /\ \E i \in 1..Len(ret) :
       /\ ret[i].midiNote = 144
       /\ LeadingSpaces(ret[i].content) = 24
       /\ midiToNoteName(ret[i].midiNote) = C4

-----------------------------------------------------------------------------
\* Properties of the composition held by the component (Spec).

\* The lines of a text, read off the positions of its newlines: line k runs
\* from after the (k-1)-th newline to before the k-th.
NewlinePositions(text) == {i \in 1..Len(text) : text[i] = "\n"}

LineCount(text) == Cardinality(NewlinePositions(text)) + 1

\* The i-th smallest member of a set of numbers.
NthOf(S, i) == CHOOSE k \in S : Cardinality({j \in S : j < k}) = i - 1

\* Line k of a text whose newlines stand at the positions nl.
LineBetween(text, nl, k) ==
  SubSeq(text,
         IF k = 1 THEN 1 ELSE NthOf(nl, k - 1) + 1,
         IF k = Cardinality(nl) + 1 THEN Len(text) ELSE NthOf(nl, k) - 1)

SourceLine(text, k) == LineBetween(text, NewlinePositions(text), k)

IsBlank(line) == \A i \in 1..Len(line) : IsSpace(line[i])

\* The numbers of the lines that are not blank.
KeptLines(text, nl) ==
  {k \in 1..(Cardinality(nl) + 1) : ~IsBlank(LineBetween(text, nl, k))}

\* C5: blank-line exclusion and order.  The composition has exactly one
\* Note per line of the document that is non-empty after trimming, in the
\* order of those lines, and the i-th Note's text is the i-th such line; a
\* document of whitespace-only lines, or the empty document, gives a
\* composition without Notes.
C5_BlankLineExclusion ==
  LET nl == NewlinePositions(content)
      kept == KeptLines(content, nl)
  IN /\ Len(notes) = Cardinality(kept)
     /\ \A i \in 1..Len(notes) :
          notes[i].content = LineBetween(content, nl, NthOf(kept, i))

\* After an edit the document has a whitespace-only line after its last
\* non-blank line, and the composition has a Note for each of the others.
C5_Witness ==
  /\ edits > 0
  /\ Len(notes) >= 1
  /\ LineCount(content) > Len(notes)
  /\ SourceLine(content, LineCount(content)) = <<" ">>

\* The last character of a line that is not whitespace.
LastNonSpace(line) ==
  line[CHOOSE i \in 1..Len(line) :
         /\ ~IsSpace(line[i])
         /\ \A j \in (i + 1)..Len(line) : IsSpace(line[j])]

\* C9: duration mapping.  For every non-blank line the Note's duration is
\* decided by the line's last non-whitespace character: "}" gives 2n, ";"
\* gives 4n, ":" gives 8n and any other character 4n, also when whitespace
\* follows that character.
C9_DurationByLastNonSpace ==
  \A i \in 1..Len(notes) :
    notes[i].duration =
      LET c == LastNonSpace(notes[i].content)
      IN CASE c = "}" -> "2n" [] c = ";" -> "4n" [] c = ":" -> "8n"
           [] OTHER -> "4n"

\* The instrument tags of the keyword table.
InstrumentTags ==
  {"piano", "strings", "synth", "pluck", "metal", "marimba", "organ",
   "horn", "bell", "glockenspiel", "harp", "woodwind", "brass", "plucked"}

\* The first word with one trailing ( { ; : , removed.
FirstWordLessOneTrailing(line) ==
  LET w == FirstRun(Trim(line))
  IN IF Len(w) > 0 /\ w[Len(w)] \in {"(", "{", ";", ":", ","}
     THEN SubSeq(w, 1, Len(w) - 1) ELSE w

\* C10: instrument mapping.  The instrument of a line is the keyword
\* table's entry for the line's first word with one trailing ( { ; : ,
\* removed; a first word that is not a key of the table yields "piano", so
\* the result is always one of the enumerated instrument tags.
C10_InstrumentMapping ==
  \A i \in 1..Len(notes) :
    LET w == FirstWordLessOneTrailing(notes[i].content)
    IN /\ notes[i].instrument \in InstrumentTags
       /\ notes[i].instrument =
            IF w \in ObjectPrototypeMembers \/ keywordMap(w) = ""
            THEN "piano" ELSE keywordMap(w)

-----------------------------------------------------------------------------
\* Properties of the composition built from a document (SpecCalls).

\* The sum of the lengths of the lines of a text numbered in S.
RECURSIVE SumOfLines(_, _, _)
SumOfLines(text, nl, S) ==
  IF S = {} THEN 0
  ELSE LET k == CHOOSE x \in S : TRUE
       IN Len(LineBetween(text, nl, k)) + SumOfLines(text, nl, S \ {k})

\* The time signature claimed for kept lines of total length sum.
ClaimedTimeSig(sum, count) ==
  CASE sum < 20 * count -> "3/4"
    [] sum > 60 * count -> "6/8"
    [] OTHER -> "4/4"

\* C13: time signature.  For every document with at least one non-blank
\* line the time signature is 3/4 when the average length of the kept lines
\* is strictly below 20, 6/8 when it is strictly above 60 and 4/4 otherwise,
\* averages of exactly 20 and exactly 60 included; every Note of one
\* composition carries the same time signature and the same key signature.
C13_TimeSignature ==
  /\ Returned("analyzeCode") =>
       LET nl == NewlinePositions(arg.text)
           kept == KeptLines(arg.text, nl)
       IN \A i \in 1..Len(ret) :
            /\ ret[i].timeSig =
                 ClaimedTimeSig(SumOfLines(arg.text, nl, kept),
                                Cardinality(kept))
            /\ ret[i].timeSig = ret[1].timeSig
            /\ ret[i].keySig = ret[1].keySig
  /\ Returned("getTimeSignatureByAvgLength") =>
       ret = ClaimedTimeSig(arg.value, arg.count)

\* A document of two lines whose average length is exactly 60 got 4/4.
C13_Witness ==
  /\ Returned("analyzeCode")
  /\ Len(ret) = 2
  /\ Len(ret[1].content) + Len(ret[2].content) = 120
  /\ ret[1].timeSig = "4/4" /\ ret[2].timeSig = "4/4"

\* The fixed extension -> key table, as pairs of an extension and its key.
ExtensionKeyTable ==
  {<<<<"j", "s">>, <<"C">>>>, <<<<"j", "s", "x">>, <<"G">>>>,
   <<<<"t", "s">>, <<"D">>>>, <<<<"t", "s", "x">>, <<"A">>>>,
   <<<<"p", "y">>, <<"A", "m">>>>, <<<<"p", "h", "p">>, <<"F">>>>,
   <<<<"j", "a", "v", "a">>, <<"B", "b">>>>, <<<<"c">>, <<"E", "b">>>>,
   <<<<"c", "p", "p">>, <<"A", "b">>>>, <<<<"r", "b">>, <<"E">>>>,
   <<<<"g", "o">>, <<"B">>>>, <<<<"r", "s">>, <<"E", "m">>>>,
   <<<<"s", "w", "i", "f", "t">>, <<"D">>>>}

\* The part of a filename after its last dot (the whole name without one),
\* in lower case.
ExtensionAfterLastDot(name) ==
  LET dots == {i \in 1..Len(name) : name[i] = "."}
      last == CHOOSE i \in dots : \A j \in dots : j <= i
  IN toLowerCase(IF dots = {} THEN name ELSE SubSeq(name, last + 1, Len(name)))

\* C14: key by extension.  getKeySignatureByExtension returns the table
\* entry for a filename whose extension is in the extension -> key table and
\* "C" for every other filename; the result is always one of the table's key
\* labels, never another value.
C14_KeyByExtension ==
  Returned("getKeySignatureByExtension") =>
    LET ext == ExtensionAfterLastDot(arg.name)
    IN /\ ret \in {e[2] : e \in ExtensionKeyTable}
       /\ \A e \in ExtensionKeyTable : e[1] = ext => ret = e[2]
       /\ (\A e \in ExtensionKeyTable : e[1] # ext) => ret = <<"C">>

-----------------------------------------------------------------------------
\* Properties of the track events of the MIDI encoder (SpecCalls).

\* The index of the first byte of the track events: after the 14 bytes of
\* the header chunk, "MTrk" and the 4-byte length.
TrackStart == Len(MidiHeader) + Len(MTrk) + 4 + 1

\* C15: tempo event.  For every positive integer tempoBPM the track's first
\* event is delta-time 0, FF 51 03 and three bytes that read big-endian are
\* floor(60,000,000 / tempoBPM), the value not truncated.
C15_TempoEvent ==
  (Returned("generateMIDI") /\ arg.tempo > 0)
    => /\ Len(ret) >= TrackStart + 6
       /\ SubSeq(ret, TrackStart, TrackStart + 3) = <<0, 255, 81, 3>>
       /\ BigEndian(SubSeq(ret, TrackStart + 4, TrackStart + 6))
            = 60000000 \div arg.tempo

\* The index of the last byte of the variable-length quantity that starts at
\* index i: the first byte from i on with its high bit clear.
RECURSIVE VlqEnd(_, _)
VlqEnd(bytes, i) ==
  IF i >= Len(bytes) \/ bytes[i] < 128 THEN i ELSE VlqEnd(bytes, i + 1)

\* From index i on the bytes are, for each note of ns in order, a Note-On
\* with delta-time 0 and right after it a Note-Off with release velocity
\* 0x40 for the same note number, and then 00 FF 2F 00 and nothing more.
RECURSIVE NotesThenEnd(_, _, _)
NotesThenEnd(bytes, i, ns) ==
  IF Len(ns) = 0
  THEN i + 3 = Len(bytes) /\ SubSeq(bytes, i, i + 3) = <<0, 255, 47, 0>>
  ELSE LET off == VlqEnd(bytes, i + 4) + 1
       IN /\ off + 2 <= Len(bytes)
          /\ bytes[i] = 0 /\ bytes[i + 1] = 144
          /\ bytes[i + 2] = ToneToMidi(Head(ns).noteName)
          /\ bytes[off] = 128 /\ bytes[off + 1] = bytes[i + 2]
          /\ bytes[off + 2] = 64
          /\ NotesThenEnd(bytes, off + 3, Tail(ns))

\* C16: track event ordering.  The track events of generateMIDI's output are
\* the tempo meta-event, then for each Note in composition order a Note-On
\* (0x90) with delta-time 0 immediately followed by the Note-Off (0x80,
\* release velocity 0x40) for the same note number, then 00 FF 2F 00 as the
\* last four bytes; so no Note-On lies between a Note-On and its Note-Off.
C16_TrackEventOrdering ==
  Returned("generateMIDI")
    => /\ Len(ret) >= TrackStart + 6
       /\ SubSeq(ret, TrackStart, TrackStart + 3) = <<0, 255, 81, 3>>
       /\ NotesThenEnd(ret, TrackStart + 7, arg.notes)

\* A file of two notes with different note numbers, the first with a
\* two-byte delta-time before its Note-Off.
C16_Witness ==
  /\ Returned("generateMIDI")
  /\ Len(arg.notes) = 2
  /\ arg.notes[1].noteName # arg.notes[2].noteName
  /\ arg.notes[1].duration = "2n" /\ arg.tempo = 240
  /\ ret[TrackStart + 7 + 4] >= 128
  /\ SubSeq(ret, Len(ret) - 3, Len(ret)) = <<0, 255, 47, 0>>

-----------------------------------------------------------------------------
\* Properties of playback scheduling (SpecCalls).

\* The duration of a note value in milliseconds at 120 BPM.
DurationMillis(duration) ==
  CASE duration = "1n" -> 2000
    [] duration = "2n" -> 1000
    [] duration = "4n" -> 500
    [] duration = "8n" -> 250

\* The sum over the first k notes of their duration plus 0.1 s.
RECURSIVE OffsetAfter(_, _)
OffsetAfter(ns, k) ==
  IF k = 0 THEN 0
  ELSE OffsetAfter(ns, k - 1) + DurationMillis(ns[k].duration) + 100

\* C17: playback scheduling.  playNotes schedules the Notes in composition
\* order; the first starts at offset 0 from the start time and Note i at the
\* sum over the earlier Notes j of (durationSeconds(j) + 0.1), so the offsets
\* increase strictly and Note i+1 never starts before the duration of Note i
\* has elapsed.
C17_PlaybackScheduling ==
  (Returned("playNotes") /\ ~arg.playing)
    => /\ Len(ret) = Len(arg.notes)
       /\ \A i \in 1..Len(ret) :
            /\ ret[i].noteName = arg.notes[i].noteName
            /\ ret[i].duration = arg.notes[i].duration
            /\ ret[i].time - arg.value = OffsetAfter(arg.notes, i - 1)
       /\ \A i \in 1..(Len(ret) - 1) :
            /\ ret[i + 1].time > ret[i].time
            /\ ret[i + 1].time >= ret[i].time + DurationMillis(ret[i].duration)

\* Two notes were scheduled from a start time other than 0, the second one
\* 1.1 s after the first, a half note.
C17_Witness ==
  /\ Returned("playNotes") /\ ~arg.playing
  /\ arg.value = 1500
  /\ Len(ret) = 2
  /\ ret[1].duration = "2n"
  /\ ret[1].time = 1500 /\ ret[2].time = 2600

-----------------------------------------------------------------------------
\* Properties of the composition across edits and file changes (Spec).

\* C18: no stale composition.  After any sequence of text edits and changes
\* of the file extension, the composition held is the one built from the
\* complete current text of the editor and the filename now selected; no
\* earlier text and no earlier filename contributes to it.
C18_NoStaleComposition == notes = analyzeCode(content, filename)

\* Text was typed after the file type had been changed, and the composition
\* carries the key of the new file type.
C18_Witness ==
  /\ filename = <<"e", "x", "a", "m", "p", "l", "e", ".", "g", "o">>
  /\ edits = 2
  /\ content # DefaultValue
  /\ Len(notes) > 0
  /\ notes[1].keySig = <<"B">>

-----------------------------------------------------------------------------
\* Properties of the snap to the scale (SpecCalls).

\* The chroma of a sharp-spelled pitch class: its place in SharpNames.
ChromaOfSharpName(p) == (CHOOSE k \in 1..12 : SharpNames[k] = p) - 1

\* The circular chromatic distance min(|a - b|, 12 - |a - b|).
CircularDistance(a, b) ==
  LET d == IF a >= b THEN a - b ELSE b - a
  IN IF d <= 12 - d THEN d ELSE 12 - d

\* The place in scale of the first member at the least circular distance
\* from chroma target.
FirstNearest(scale, target) ==
  CHOOSE k \in 1..Len(scale) :
    /\ \A j \in 1..Len(scale) :
         CircularDistance(target, NoteGet(scale[k]).chroma)
           <= CircularDistance(target, NoteGet(scale[j]).chroma)
    /\ \A j \in 1..(k - 1) :
         CircularDistance(target, NoteGet(scale[j]).chroma)
           > CircularDistance(target, NoteGet(scale[k]).chroma)

\* C19: snap selection and tie-break.  constrainNoteToKey returns the scale
\* member at the least circular chromatic distance from the input's pitch
\* class, of two members equally near the one that comes first in the order
\* of getScaleNotes; so a pitch class that is in the scale comes back
\* unchanged.
C19_SnapSelection ==
  (Returned("constrainNoteToKey") /\ IsPitchWithOctave(arg.noteName))
    => LET scale == getScaleNotes(arg.key)
           p == PitchClassOf(arg.noteName)
           member == scale[FirstNearest(scale, ChromaOfSharpName(p))]
       IN /\ \E o \in Octaves \cup {4} : ret = member \o IntToStr(o)
          /\ p \in Range(scale) =>
               \E o \in Octaves \cup {4} : ret = p \o IntToStr(o)

\* C in the key of B: B and C# are both one semitone away, and B, the first
\* of the two in the scale, was returned.
C19_Witness ==
  /\ Returned("constrainNoteToKey")
  /\ arg.noteName = <<"C", "4">> /\ arg.key = <<"B">>
  /\ getScaleNotes(arg.key)[1] = <<"B">>
  /\ getScaleNotes(arg.key)[2] = <<"C", "#">>
  /\ ret = <<"B", "4">>

\* The distance of two MIDI numbers in semitones.
Semitones(a, b) == IF a >= b THEN a - b ELSE b - a

\* C20: nearest note in absolute pitch.  For every valid input note and
\* every key label of the extension -> key table, the note returned by
\* constrainNoteToKey is the note of the scale nearest to the input among
\* the notes of the input's octave, so its MIDI number is at most one
\* semitone from the input's (C4 is never moved to B4).
C20_NearestInAbsolutePitch ==
  (Returned("constrainNoteToKey") /\ IsPitchWithOctave(arg.noteName)
     /\ arg.key \in TableKeys)
    => LET scale == getScaleNotes(arg.key)
           input == ToneToMidi(arg.noteName)
           octave == IntToStr(OctaveOf(arg.noteName))
       IN /\ Semitones(ToneToMidi(ret), input) <= 1
          /\ \A k \in 1..Len(scale) :
               Semitones(ToneToMidi(ret), input)
                 <= Semitones(ToneToMidi(scale[k] \o octave), input)

-----------------------------------------------------------------------------
\* Properties of the note events of the MIDI encoder (SpecCalls).

\* The Note-Off delta-times, decoded, of the notes of ns whose events start
\* at index i.
RECURSIVE NoteOffDeltas(_, _, _)
NoteOffDeltas(bytes, i, ns) ==
  IF Len(ns) = 0 \/ i + 4 > Len(bytes) THEN <<>>
  ELSE <<VlqDecode(SubSeq(bytes, i + 4, VlqEnd(bytes, i + 4)))>>
         \o NoteOffDeltas(bytes, VlqEnd(bytes, i + 4) + 4, Tail(ns))

\* The ticks of a note value at 96 ticks per quarter note.
ClaimedTicks(duration) ==
  CASE duration = "1n" -> 384
    [] duration = "2n" -> 192
    [] duration = "4n" -> 96
    [] duration = "8n" -> 48

\* C21: Note-Off delta-time in ticks.  With 96 ticks per quarter note, for
\* every tempoBPM the Note-Off delta-time of a quarter note is 96 ticks, of
\* a half note 192 and of an eighth note 48; at tempo 120 the half note's
\* delta-time is the two bytes 81 40.
C21_NoteOffDeltaTicks ==
  Returned("generateMIDI")
    => LET deltas == NoteOffDeltas(ret, TrackStart + 7, arg.notes)
       IN /\ Len(deltas) = Len(arg.notes)
          /\ \A k \in 1..Len(deltas) :
               deltas[k] = ClaimedTicks(arg.notes[k].duration)
          /\ (Len(arg.notes) > 0 /\ arg.tempo = 120
                /\ arg.notes[1].duration = "2n")
               => SubSeq(ret, TrackStart + 11, TrackStart + 12) = <<129, 64>>

\* The data bytes of the note events that start at index i: per note the
\* two after the Note-On status and the two after the Note-Off status, up to
\* the end-of-track event.
RECURSIVE NoteDataBytes(_, _)
NoteDataBytes(bytes, i) ==
  IF i + 4 > Len(bytes) \/ bytes[i + 1] # 144 THEN <<>>
  ELSE LET off == VlqEnd(bytes, i + 4) + 1
       IN <<bytes[i + 2], bytes[i + 3], bytes[off + 1], bytes[off + 2]>>
            \o NoteDataBytes(bytes, off + 3)

\* C22: MIDI data-byte validity for the pipeline's output.  For every
\* document and filename, every Note built by analyzeCode encodes to a note
\* number in 0..127, in fact at least 60, and a Note-On velocity byte in
\* 0..127, so every data byte of every Note-On and Note-Off event of the
\* exported file is below 0x80.
C22_DataBytesValid ==
  /\ Returned("analyzeCode") =>
       \A k \in 1..Len(ret) :
         /\ ToneToMidi(ret[k].noteName) \in 60..127
         /\ ret[k].velocity \in 0..127
  /\ (Returned("constrainNoteToKey") /\ IsPitchWithOctave(arg.noteName)
        /\ arg.key \in TableKeys) =>
       ToneToMidi(ret) \in 60..127
  /\ (Returned("exportMIDI") /\ Len(ret) > 0) =>
       LET data == NoteDataBytes(ret, TrackStart + 7)
       IN /\ Len(data) = 4 * Len(analyzeCode(arg.text, arg.name))
          /\ \A k \in 1..Len(data) : data[k] < 128
          /\ \A k \in 1..Len(data) : k % 4 = 1 => data[k] >= 60

\* The file of a document with a line indented by 24 spaces, whose MIDI
\* number 144 falls back to C4 and whose velocity is capped at 100.
C22_Witness ==
  /\ Returned("exportMIDI")
  /\ Len(arg.text) = 24 + 62
  /\ LeadingSpaces(arg.text) = 24
  /\ NoteDataBytes(ret, TrackStart + 7) = <<60, 100, 60, 64>>

-----------------------------------------------------------------------------
\* Properties of the component's editor and composition (Spec).

\* C23: line index.  Each Note's line index is the 1-based position of its
\* line in the source document, blank lines counted: the Note built from the
\* k-th line of the source carries k even when blank lines precede it.
C23_LineIndexInSource ==
  LET kept == KeptLines(content, NewlinePositions(content))
  IN \A i \in 1..Len(notes) :
       i <= Cardinality(kept) => notes[i].line = NthOf(kept, i)

\* C24: frame of a file-extension change.  A change of the file extension,
\* and likewise a theme toggle, leaves the text of the editor's document
\* unchanged: only the filename (or the theme) changes, and the composition
\* is recomputed from the same text under the new filename.
C24_FileChangeFrame ==
  [][(filename' # filename \/ darkMode' # darkMode)
       => /\ content' = content
          /\ notes' = analyzeCode(content, filename')]_vars

====
